---- MODULE Spec2Model ----
(***************************************************************************)
(* Model of server.py: a static file server on a fixed port with three     *)
(* CORS headers added to every header block, five startup lines, a browser *)
(* launch and a Ctrl+C handler around serve_forever().                      *)
(*                                                                         *)
(* server.py is 44 lines; what it does is decided by the classes it        *)
(* instantiates and inherits from (socketserver.TCPServer and              *)
(* http.server.SimpleHTTPRequestHandler of CPython 3.11).  Their code      *)
(* paths are modelled as they are written there; every such definition     *)
(* names the library function it follows in the comment above it.          *)
(***************************************************************************)
EXTENDS Integers, Sequences, FiniteSets, TLC

VARIABLES
    pc,          \* position of main(): a statement of server.py
    exc,         \* the exception propagating out of main(), "none" if none
    cwd,         \* the process's working directory
    sock,        \* the listening socket: none, bound, listening, closed
    binds,       \* the ports bind() was called with, in order
    portBusy,    \* environment: another process holds PORT
    stdout,      \* the lines printed so far
    browser,     \* the launched browser's connection: none, launched, ...
    launches,    \* the number of webbrowser.open calls
    backlog,     \* the kernel's accept queue: connections not yet accepted
    handlers,    \* the request handlers in progress (the call stack of
                 \* process_request), each with its request and response
    sigint,      \* where the first interrupt found the process
    lateSigint,  \* a further interrupt arrived after the first
    midSigint,   \* an interrupt arrived while a handler was in progress
    outcomes,    \* how the requests so far have ended: served, error
                 \* (an error response), dropped (an exception), aborted
    everServing, \* serve_forever() has been entered
    chdirs,      \* the number of os.chdir calls
    exitCode     \* the process's exit status, -1 while it runs

vars == <<pc, exc, cwd, sock, binds, portBusy, stdout, browser, launches,
          backlog, handlers, sigint, lateSigint, midSigint, outcomes,
          everServing, chdirs, exitCode>>

-----------------------------------------------------------------------------
(* Bounds and constants *)

\* The accept queue's capacity in the model (TCPServer.request_queue_size
\* is 5; the model keeps it small).
MaxBacklog == 2

\* server.py line 14.
PORT == 3000

\* The directory the interpreter was started in, and the script's own.
InvocationDir == "invocation-dir"
ScriptDir == "script-dir"

-----------------------------------------------------------------------------
(* The served directory.  Only the script's directory holds the site; the  *)
(* invocation directory holds none of its files.                           *)

Nodes == {"root", "index.html", "app.js", "docs", "locked", "nope"}

\* os.path.isdir / os.path.isfile on the translated path.
Kind(dir, node) ==
    IF dir # ScriptDir THEN (IF node = "root" THEN "dir" ELSE "none")
    ELSE CASE node \in {"root", "docs"} -> "dir"
           [] node \in {"index.html", "app.js", "locked"} -> "file"
           [] OTHER -> "none"

\* The index page send_head finds in a directory (index.html), if any.
HasIndex(dir, node) == dir = ScriptDir /\ node = "root"

\* open(path, 'rb') succeeds: "locked" exists but cannot be opened.
Openable(dir, node) == Kind(dir, node) = "file" /\ node # "locked"

\* The bytes on disk.
Contents(node) ==
    CASE node = "index.html" -> "<html>quiz</html>"
      [] node = "app.js" -> "var quiz;"
      [] node = "locked" -> "secret"
      [] OTHER -> ""

\* What list_directory writes for a directory without index page.
Listing == "<ul>listing</ul>"
\* What send_error writes after its headers.
ErrorPage == "<h1>Error response</h1>"

-----------------------------------------------------------------------------
(* Requests.  version is the last word of the request line; "HTTP/0.9"     *)
(* stands for a request line of two words (no version), "HTTQ/1" for a     *)
(* version that does not parse.  ims: the request carries an               *)
(* If-Modified-Since that is not older than the file, and no If-None-Match.*)

Methods == {"GET", "HEAD", "POST", "OPTIONS"}
Versions == {"HTTP/1.1", "HTTP/0.9", "HTTP/2.0", "HTTQ/1"}

Requests ==
    {r \in [method : Methods, version : Versions, node : Nodes,
            slash : BOOLEAN, ims : BOOLEAN] : r.node = "root" => r.slash}

NoRequest ==
    [method |-> "", version |-> "", node |-> "", slash |-> FALSE, ims |-> FALSE]

\* A response under construction: buf is _headers_buffer, head what has been
\* written to the connection as status line and header lines, body what has
\* been written after them.  A line is a pair; the status line is the pair
\* <<protocol_version, code>> and the blank line ending the headers EndOfHeaders.
NoResponse == [buf |-> <<>>, head |-> <<>>, body |-> ""]
EndOfHeaders == <<"", "">>

\* BaseHTTPRequestHandler.send_response_only
send_response_only(r, rv, code) ==
    IF rv # "HTTP/0.9"
    THEN [r EXCEPT !.buf = Append(@, <<"HTTP/1.0", ToString(code)>>)]
    ELSE r

\* BaseHTTPRequestHandler.send_header
send_header(r, rv, keyword, value) ==
    IF rv # "HTTP/0.9"
    THEN [r EXCEPT !.buf = Append(@, <<keyword, value>>)]
    ELSE r

\* BaseHTTPRequestHandler.end_headers with flush_headers
base_end_headers(r, rv) ==
    IF rv # "HTTP/0.9"
    THEN [r EXCEPT !.head = @ \o Append(r.buf, EndOfHeaders), !.buf = <<>>]
    ELSE r

\* An end_headers that forgets the third header.
end_headers_two(r, rv) ==
    base_end_headers(
        send_header(
            send_header(r, rv, "Access-Control-Allow-Origin", "*"),
            rv, "Access-Control-Allow-Methods", "GET, POST, OPTIONS"),
        rv)

\* server.py lines 17-22: CustomHTTPRequestHandler.end_headers
end_headers(r, rv) ==
    base_end_headers(
        send_header(
            send_header(
                send_header(r, rv, "Access-Control-Allow-Origin", "*"),
                rv, "Access-Control-Allow-Methods", "GET, POST, OPTIONS"),
            rv, "Access-Control-Allow-Headers", "Content-Type"),
        rv)

\* BaseHTTPRequestHandler.send_response
send_response(r, rv, code) ==
    send_header(
        send_header(send_response_only(r, rv, code), rv, "Server", "SimpleHTTP"),
        rv, "Date", "now")

\* BaseHTTPRequestHandler.send_error
send_error(r, rv, command, code) ==
    LET hasBody == code >= 200 /\ code \notin {204, 205, 304}
        r1 == send_header(send_response(r, rv, code), rv, "Connection", "close")
        r2 == IF hasBody
              THEN send_header(
                       send_header(r1, rv, "Content-Type", "text/html;charset=utf-8"),
                       rv, "Content-Length", "len(body)")
              ELSE r1
        r3 == end_headers(r2, rv)
    IN  IF command # "HEAD" /\ hasBody THEN [r3 EXCEPT !.body = ErrorPage] ELSE r3

\* SimpleHTTPRequestHandler.send_head and list_directory: the headers are
\* sent, and src is the file object returned (<<>> for None, else its bytes).
send_head(req, rv, dir) ==
    LET r0 == NoResponse
        ok(content, ctype) ==
            [resp |-> end_headers(
                          send_header(
                              send_header(
                                  send_header(send_response(r0, rv, 200),
                                              rv, "Content-type", ctype),
                                  rv, "Content-Length", "len(file)"),
                              rv, "Last-Modified", "mtime"),
                          rv),
             src |-> <<content>>]
        notFound == [resp |-> send_error(r0, rv, req.method, 404), src |-> <<>>]
        file(node) ==
            IF ~Openable(dir, node) THEN notFound
            ELSE IF req.ims
            THEN [resp |-> end_headers(send_response(r0, rv, 304), rv), src |-> <<>>]
            ELSE ok(Contents(node), "guess_type(path)")
    IN  IF Kind(dir, req.node) = "dir"
        THEN IF ~req.slash
             THEN [resp |-> end_headers(
                                send_header(
                                    send_header(send_response(r0, rv, 301),
                                                rv, "Location", "path/"),
                                    rv, "Content-Length", "0"),
                                rv),
                   src |-> <<>>]
             ELSE IF HasIndex(dir, req.node)
             THEN file("index.html")
             ELSE [resp |-> end_headers(
                                send_header(
                                    send_header(send_response(r0, rv, 200),
                                                rv, "Content-type", "text/html"),
                                    rv, "Content-Length", "len(listing)"),
                                rv),
                   src |-> <<Listing>>]
        ELSE IF req.slash THEN notFound
        ELSE file(req.node)

\* BaseHTTPRequestHandler.parse_request: ok, the request_version the
\* response is written under, and the error response already sent if not ok.
\* self.command is None while the first line is in error.
parse_request(req) ==
    CASE req.version = "HTTQ/1" ->
            [ok |-> FALSE, rv |-> "HTTP/0.9",
             resp |-> send_error(NoResponse, "HTTP/0.9", "None", 400)]
      [] req.version = "HTTP/2.0" ->
            [ok |-> FALSE, rv |-> "HTTP/0.9",
             resp |-> send_error(NoResponse, "HTTP/0.9", "None", 505)]
      [] req.version = "HTTP/0.9" ->
            IF req.method # "GET"
            THEN [ok |-> FALSE, rv |-> "HTTP/0.9",
                  resp |-> send_error(NoResponse, "HTTP/0.9", "None", 400)]
            ELSE [ok |-> TRUE, rv |-> "HTTP/0.9", resp |-> NoResponse]
      [] OTHER -> [ok |-> TRUE, rv |-> req.version, resp |-> NoResponse]

\* A handler whose GET sends the head and never the file.
do_method_head_only(req, rv, dir) ==
    [resp |-> send_head(req, rv, dir).resp, copy |-> <<>>]

\* SimpleHTTPRequestHandler.do_GET and do_HEAD, which the handler class of
\* line 16 inherits: both send the head, do_GET then copies the file.
\* copy: the bytes still to be copied to the connection, <<>> if none.
do_method(req, rv, dir) ==
    LET h == send_head(req, rv, dir)
    IN  [resp |-> h.resp, copy |-> IF req.method = "GET" THEN h.src ELSE <<>>]

\* BaseHTTPRequestHandler.handle_one_request up to the end of the headers:
\* the handler class has do_GET and do_HEAD and no other do_ method.
handle_one_request(req, dir) ==
    LET p == parse_request(req)
    IN  IF ~p.ok THEN [rv |-> p.rv, resp |-> p.resp, copy |-> <<>>]
        ELSE IF req.method \notin {"GET", "HEAD"}
        THEN [rv |-> p.rv, resp |-> send_error(NoResponse, p.rv, req.method, 501),
              copy |-> <<>>]
        ELSE LET m == do_method(req, p.rv, dir)
             IN  [rv |-> p.rv, resp |-> m.resp, copy |-> m.copy]

\* Line 36: the browser is pointed at http://localhost:3000, so its request
\* is a GET of the root path (conditional when it holds a cached copy); any
\* other client may send any request.
RequestsOf(tag) ==
    IF tag = "browser"
    THEN {r \in Requests : r.method = "GET" /\ r.version = "HTTP/1.1" /\ r.node = "root"}
    ELSE Requests

-----------------------------------------------------------------------------
(* main(), server.py lines 24-42 *)

\* A main() that stays in the directory it was started in.
ChdirNowhere == InvocationDir

\* Line 26: os.chdir(Path(__file__).parent)
ChdirTarget == ScriptDir

\* Lines 29-33: the five startup lines.
DiagLines ==
    << "AP Government Quiz Tool Server",
       "Serving at: http://localhost:3000",
       "Directory: os.getcwd()",
       "Opening browser...",
       "Press Ctrl+C to stop the server" >>

\* Line 41
StopNotice == "Server stopped"

\* A main() that prints its startup lines before it constructs the server.
MainNextPrintFirst(p) ==
    CASE p = "chdir" -> "print"
      [] p = "print" -> "ctor_bind"
      [] p = "ctor_bind" -> "ctor_listen"
      [] p = "ctor_listen" -> "browser"
      [] p = "browser" -> "try"
      [] p = "try" -> "serve"
      [] p = "except_print" -> "except_exit"
      [] p = "except_exit" -> "with_exit"
      [] p = "with_exit" -> "exit"
      [] OTHER -> "terminated"

\* A main() that launches the browser before it constructs the server.
MainNextBrowserFirst(p) ==
    CASE p = "chdir" -> "browser"
      [] p = "browser" -> "ctor_bind"
      [] p = "ctor_bind" -> "ctor_listen"
      [] p = "ctor_listen" -> "print"
      [] p = "print" -> "try"
      [] p = "try" -> "serve"
      [] p = "except_print" -> "except_exit"
      [] p = "except_exit" -> "with_exit"
      [] p = "with_exit" -> "exit"
      [] OTHER -> "terminated"

\* The order of main()'s statements: the position that follows p when p
\* completes normally.  The TCPServer constructor (line 28) binds and then
\* listens; "try" is the call of serve_forever (lines 38-39).
MainNext(p) ==
    CASE p = "chdir" -> "ctor_bind"
      [] p = "ctor_bind" -> "ctor_listen"
      [] p = "ctor_listen" -> "print"
      [] p = "print" -> "browser"
      [] p = "browser" -> "try"
      [] p = "try" -> "serve"
      [] p = "except_print" -> "except_exit"
      [] p = "except_exit" -> "with_exit"
      [] p = "with_exit" -> "exit"
      [] OTHER -> "terminated"

\* A main() without the try block, and one whose try block holds the whole
\* body of the with block.
InTryNever(p) == FALSE
InTryWholeBody(p) == p \in {"print", "browser", "try", "serve"}

\* Lines 38-40: the statements inside try ... except KeyboardInterrupt.
InTry(p) == p \in {"try", "serve"}

\* Lines 28-42: the statements inside the with block, whose __exit__ calls
\* server_close().
InWith(p) == p \in {"print", "browser", "try", "serve", "except_print", "except_exit"}

\* Line 28: inside TCPServer.__init__, whose except clause calls
\* server_close() and re-raises.
InCtor(p) == p \in {"ctor_bind", "ctor_listen"}

\* Line 42: sys.exit(0)
ExceptExit == 0

\* The exit status the interpreter gives an exception leaving main():
\* SystemExit carries its own, an uncaught KeyboardInterrupt ends the process
\* by SIGINT (130 to a shell), any other uncaught exception gives 1.
ExitStatus(e) ==
    CASE e = "SystemExit" -> ExceptExit
      [] e = "KeyboardInterrupt" -> 130
      [] e = "none" -> 0
      [] OTHER -> 1

\* Closing the listening socket resets the connections waiting in its queue.
BrowserAfterClose == IF browser = "queued" THEN "reset" ELSE browser

Chdir ==
    /\ pc = "chdir"
    /\ cwd' = ChdirTarget
    /\ chdirs' = chdirs + 1
    /\ pc' = MainNext(pc)
    /\ UNCHANGED <<exc, sock, binds, portBusy, stdout, browser, launches,
                   backlog, handlers, sigint, lateSigint, midSigint, outcomes,
                   everServing, exitCode>>

\* TCPServer.__init__: server_bind().  allow_reuse_address is False, so a
\* held port makes bind raise OSError; the constructor closes the socket and
\* re-raises, and nothing in main() catches it.
ServerBind ==
    /\ pc = "ctor_bind"
    /\ binds' = Append(binds, PORT)
    /\ IF portBusy
       THEN /\ sock' = "closed"
            /\ exc' = "OSError"
            /\ pc' = "exit"
       ELSE /\ sock' = "bound"
            /\ exc' = exc
            /\ pc' = MainNext(pc)
    /\ UNCHANGED <<cwd, portBusy, stdout, browser, launches, backlog, handlers,
                   sigint, lateSigint, midSigint, outcomes, everServing, chdirs, exitCode>>

\* TCPServer.__init__: server_activate(), socket.listen(request_queue_size).
ServerActivate ==
    /\ pc = "ctor_listen"
    /\ sock' = "listening"
    /\ pc' = MainNext(pc)
    /\ UNCHANGED <<exc, cwd, binds, portBusy, stdout, browser, launches,
                   backlog, handlers, sigint, lateSigint, midSigint, outcomes,
                   everServing, chdirs, exitCode>>

\* Lines 29-33, one line per step.
PrintDiag ==
    /\ pc = "print"
    /\ Len(stdout) < Len(DiagLines)
    /\ stdout' = Append(stdout, DiagLines[Len(stdout) + 1])
    /\ pc' = IF Len(stdout') = Len(DiagLines) THEN MainNext(pc) ELSE pc
    /\ UNCHANGED <<exc, cwd, sock, binds, portBusy, browser, launches,
                   backlog, handlers, sigint, lateSigint, midSigint, outcomes,
                   everServing, chdirs, exitCode>>

\* Line 36: webbrowser.open starts the browser and returns.
OpenBrowser ==
    /\ pc = "browser"
    /\ launches' = launches + 1
    /\ browser' = "launched"
    /\ pc' = MainNext(pc)
    /\ UNCHANGED <<exc, cwd, sock, binds, portBusy, stdout, backlog,
                   handlers, sigint, lateSigint, midSigint, outcomes, everServing,
                   chdirs, exitCode>>

\* Lines 38-39: enter the try block and call serve_forever().
ServeForever ==
    /\ pc = "try"
    /\ everServing' = TRUE
    /\ pc' = MainNext(pc)
    /\ UNCHANGED <<exc, cwd, sock, binds, portBusy, stdout, browser,
                   launches, backlog, handlers, sigint, lateSigint, midSigint, outcomes,
                   chdirs, exitCode>>

-----------------------------------------------------------------------------
(* serve_forever(): BaseServer.serve_forever, _handle_request_noblock,     *)
(* process_request, finish_request and the handler's constructor.          *)

\* A server that hands each request to a thread of its own (ThreadingTCPServer).
MayAcceptThreaded == TRUE

\* Line 28: the server is a socketserver.TCPServer, whose process_request
\* calls finish_request in the serving thread: the loop comes back to
\* select() and accept() only when the handler has returned.
MayAccept == handlers = <<>>

\* get_request(): accept the connection at the head of the queue and
\* construct its handler; SimpleHTTPRequestHandler.__init__ takes
\* os.getcwd() as the directory to serve.
Accept ==
    /\ pc = "serve"
    /\ MayAccept
    /\ backlog # <<>>
    /\ handlers' = Append(handlers,
                          [tag |-> Head(backlog), phase |-> "read",
                           req |-> NoRequest, rv |-> "", resp |-> NoResponse,
                           copy |-> <<>>, dir |-> cwd])
    /\ backlog' = Tail(backlog)
    /\ browser' = IF Head(backlog) = "browser" THEN "handling" ELSE browser
    /\ UNCHANGED <<pc, exc, cwd, sock, binds, portBusy, stdout, launches,
                   sigint, lateSigint, midSigint, outcomes, everServing,
                   chdirs, exitCode>>

\* handle_one_request(): read the request and send the response's headers
\* (and an error response's body).
HandleRequest(i) ==
    /\ pc = "serve"
    /\ handlers[i].phase = "read"
    /\ \E req \in RequestsOf(handlers[i].tag) :
          LET h == handle_one_request(req, handlers[i].dir)
          IN  handlers' = [handlers EXCEPT
                  ![i] = [@ EXCEPT !.req = req, !.rv = h.rv, !.resp = h.resp,
                                   !.copy = h.copy,
                                   !.phase = IF h.copy # <<>> THEN "body" ELSE "done"]]
    /\ UNCHANGED <<pc, exc, cwd, sock, binds, portBusy, stdout, browser,
                   launches, backlog, sigint, lateSigint, midSigint, outcomes,
                   everServing, chdirs, exitCode>>

\* do_GET: copyfile(f, self.wfile).  Reading the file or writing to the
\* connection may raise OSError, which leaves the handler as an exception.
CopyFile(i) ==
    /\ pc = "serve"
    /\ handlers[i].phase = "body"
    /\ \E ok \in BOOLEAN :
          handlers' = [handlers EXCEPT
              ![i] = IF ok
                     THEN [@ EXCEPT !.resp.body = handlers[i].copy[1],
                                    !.phase = "done"]
                     ELSE [@ EXCEPT !.phase = "raised"]]
    /\ UNCHANGED <<pc, exc, cwd, sock, binds, portBusy, stdout, browser,
                   launches, backlog, sigint, lateSigint, midSigint, outcomes,
                   everServing, chdirs, exitCode>>

\* The status line's code of a response, "" if it has no status line.
WireStatus(resp) == IF resp.head = <<>> THEN "" ELSE resp.head[1][2]

\* How a response that was sent to its end counts: an error response is one
\* send_error wrote.
Outcome(h) == IF h.resp.body = ErrorPage \/ WireStatus(h.resp) \in {"400", "404", "501", "505"}
              THEN "error" ELSE "served"

RemoveAt(seq, i) == SubSeq(seq, 1, i - 1) \o SubSeq(seq, i + 1, Len(seq))

\* The handler returns; process_request calls shutdown_request and the loop
\* goes on.
Finish(i) ==
    /\ pc = "serve"
    /\ handlers[i].phase = "done"
    /\ outcomes' = outcomes \cup {Outcome(handlers[i])}
    /\ browser' = IF handlers[i].tag = "browser" THEN "served" ELSE browser
    /\ handlers' = RemoveAt(handlers, i)
    /\ UNCHANGED <<pc, exc, cwd, sock, binds, portBusy, stdout, launches,
                   backlog, sigint, lateSigint, midSigint, everServing,
                   chdirs, exitCode>>

\* A serve loop that lets a handler's exception out of serve_forever().
AfterHandlerExceptionRaised == "with_exit"

\* _handle_request_noblock: "except Exception: self.handle_error(...);
\* self.shutdown_request(request)": the position of main() after a handler
\* raised an Exception is still inside serve_forever().
AfterHandlerException == "serve"

HandleError(i) ==
    /\ pc = "serve"
    /\ handlers[i].phase = "raised"
    /\ outcomes' = outcomes \cup {"dropped"}
    /\ browser' = IF handlers[i].tag = "browser" THEN "dropped" ELSE browser
    /\ handlers' = RemoveAt(handlers, i)
    /\ pc' = AfterHandlerException
    /\ exc' = IF AfterHandlerException = "serve" THEN exc ELSE "OSError"
    /\ UNCHANGED <<cwd, sock, binds, portBusy, stdout, launches,
                   backlog, sigint, lateSigint, midSigint, everServing,
                   chdirs, exitCode>>

-----------------------------------------------------------------------------
(* The keyboard interrupt and the way out of main() *)

\* A serve loop that finishes the request in progress before it stops.
InterruptedRequestFinished == "served"

\* _handle_request_noblock: KeyboardInterrupt is no Exception, so it takes
\* "except: self.shutdown_request(request); raise": the request in progress
\* ends here, its connection shut down, and the interrupt goes on to line 40.
InterruptedRequest == "aborted"

\* The state main() is in at position p, in the words of the design:
\* STARTING up to the browser launch, SERVING inside the try block.
StateAt(p) ==
    IF p \in {"try", "serve"} THEN "serving"
    ELSE IF p \in {"chdir", "ctor_bind", "ctor_listen", "print", "browser"}
    THEN "starting"
    ELSE "stopping"

\* SIGINT: Python raises KeyboardInterrupt in the main thread at whatever
\* statement it is executing (a blocking call returns with EINTR first).
Sigint ==
    /\ pc \notin {"exit", "terminated"}
    /\ sigint' = IF sigint = "none" THEN StateAt(pc) ELSE sigint
    /\ lateSigint' = (lateSigint \/ sigint # "none")
    /\ IF InTry(pc)
       THEN \* line 40: except KeyboardInterrupt
            /\ pc' = "except_print"
            /\ exc' = exc
            /\ handlers' = <<>>
            /\ midSigint' = (midSigint \/ handlers # <<>>)
            /\ outcomes' = outcomes \cup
                             (IF handlers # <<>> THEN {InterruptedRequest} ELSE {})
            /\ browser' = IF \E i \in 1..Len(handlers) : handlers[i].tag = "browser"
                          THEN InterruptedRequest ELSE browser
            /\ UNCHANGED <<sock, backlog>>
       ELSE /\ exc' = "KeyboardInterrupt"
            /\ UNCHANGED <<handlers, midSigint, outcomes>>
            /\ IF InCtor(pc)
               THEN \* the constructor's "except: self.server_close(); raise"
                    pc' = "exit" /\ sock' = "closed" /\ UNCHANGED <<backlog, browser>>
               ELSE IF InWith(pc)
               THEN pc' = "with_exit" /\ UNCHANGED <<sock, backlog, browser>>
               ELSE IF pc = "with_exit"
               THEN \* server_close() is cut short before or after the close
                    /\ pc' = "exit"
                    /\ \E closed \in BOOLEAN :
                          IF closed
                          THEN sock' = "closed" /\ backlog' = <<>>
                               /\ browser' = BrowserAfterClose
                          ELSE UNCHANGED <<sock, backlog, browser>>
               ELSE pc' = "exit" /\ UNCHANGED <<sock, backlog, browser>>
    /\ UNCHANGED <<cwd, binds, portBusy, stdout, launches, everServing,
                   chdirs, exitCode>>

\* Line 41
ExceptPrint ==
    /\ pc = "except_print"
    /\ stdout' = Append(stdout, StopNotice)
    /\ pc' = MainNext(pc)
    /\ UNCHANGED <<exc, cwd, sock, binds, portBusy, browser, launches,
                   backlog, handlers, sigint, lateSigint, midSigint, outcomes,
                   everServing, chdirs, exitCode>>

\* Line 42: sys.exit(0) raises SystemExit
SysExit ==
    /\ pc = "except_exit"
    /\ exc' = "SystemExit"
    /\ pc' = MainNext(pc)
    /\ UNCHANGED <<cwd, sock, binds, portBusy, stdout, browser, launches,
                   backlog, handlers, sigint, lateSigint, midSigint, outcomes,
                   everServing, chdirs, exitCode>>

\* Line 28: the with block's __exit__ calls server_close()
WithExit ==
    /\ pc = "with_exit"
    /\ sock' = "closed"
    /\ backlog' = <<>>
    /\ browser' = BrowserAfterClose
    /\ pc' = MainNext(pc)
    /\ UNCHANGED <<exc, cwd, binds, portBusy, stdout, launches, handlers,
                   sigint, lateSigint, midSigint, outcomes, everServing,
                   chdirs, exitCode>>

\* Lines 44-45: the exception leaves main() and the interpreter exits; the
\* operating system closes what the process still holds.
ProcessExit ==
    /\ pc = "exit"
    /\ exitCode' = ExitStatus(exc)
    /\ sock' = IF sock \in {"bound", "listening"} THEN "closed" ELSE sock
    /\ backlog' = <<>>
    /\ browser' = BrowserAfterClose
    /\ pc' = "terminated"
    /\ UNCHANGED <<exc, cwd, binds, portBusy, stdout, launches, handlers,
                   sigint, lateSigint, midSigint, outcomes, everServing, chdirs>>

-----------------------------------------------------------------------------
(* The clients *)

\* A client connects: the kernel queues the connection once the socket
\* listens, whether or not the process has reached accept().
ClientConnect ==
    /\ sock = "listening"
    /\ Len(backlog) < MaxBacklog
    /\ backlog' = Append(backlog, "client")
    /\ UNCHANGED <<pc, exc, cwd, sock, binds, portBusy, stdout, browser,
                   launches, handlers, sigint, lateSigint, midSigint, outcomes,
                   everServing, chdirs, exitCode>>

\* The browser started at line 36 requests the root URL, at any time after
\* its launch.  With the queue full its connection attempt is retried.
BrowserConnect ==
    /\ browser = "launched"
    /\ IF sock = "listening"
       THEN /\ Len(backlog) < MaxBacklog
            /\ backlog' = Append(backlog, "browser")
            /\ browser' = "queued"
       ELSE /\ browser' = "refused"
            /\ backlog' = backlog
    /\ UNCHANGED <<pc, exc, cwd, sock, binds, portBusy, stdout, launches,
                   handlers, sigint, lateSigint, midSigint, outcomes,
                   everServing, chdirs, exitCode>>

-----------------------------------------------------------------------------

Init ==
    /\ pc = "chdir"
    /\ exc = "none"
    /\ cwd = InvocationDir
    /\ sock = "none"
    /\ binds = <<>>
    /\ portBusy \in BOOLEAN
    /\ stdout = <<>>
    /\ browser = "none"
    /\ launches = 0
    /\ backlog = <<>>
    /\ handlers = <<>>
    /\ sigint = "none"
    /\ lateSigint = FALSE
    /\ midSigint = FALSE
    /\ outcomes = {}
    /\ everServing = FALSE
    /\ chdirs = 0
    /\ exitCode = -1

\* The steps of the server process.
ProcStep ==
    \/ Chdir
    \/ ServerBind
    \/ ServerActivate
    \/ PrintDiag
    \/ OpenBrowser
    \/ ServeForever
    \/ Accept
    \/ \E i \in 1..Len(handlers) : HandleRequest(i)
    \/ \E i \in 1..Len(handlers) : CopyFile(i)
    \/ \E i \in 1..Len(handlers) : Finish(i)
    \/ \E i \in 1..Len(handlers) : HandleError(i)
    \/ ExceptPrint
    \/ SysExit
    \/ WithExit
    \/ ProcessExit

Next ==
    \/ ProcStep
    \/ Sigint
    \/ ClientConnect
    \/ BrowserConnect

Spec == Init /\ [][Next]_vars

\* The process is scheduled: a statement that can run does run.  Interrupts
\* and clients come as they please.
FairSpec == Spec /\ WF_vars(ProcStep)

-----------------------------------------------------------------------------
(* Properties *)

Count(seq, x) == Cardinality({i \in DOMAIN seq : seq[i] = x})
NameCount(seq, name) == Cardinality({i \in DOMAIN seq : seq[i][1] = name})
NoticeCount == Count(stdout, StopNotice)

\* A handler that has answered: it has read its request and written its
\* response's status line and headers, if the response has any.
Answered(h) == h.phase # "read"
Handlers == {handlers[i] : i \in DOMAIN handlers}

CorsHeaders ==
    { <<"Access-Control-Allow-Origin", "*">>,
      <<"Access-Control-Allow-Methods", "GET, POST, OPTIONS">>,
      <<"Access-Control-Allow-Headers", "Content-Type">> }

\* Other headers of the CORS family, none of which may appear.
OtherCorsNames ==
    {"Access-Control-Allow-Credentials", "Access-Control-Max-Age",
     "Access-Control-Expose-Headers"}

\* A header block that carries exactly the three CORS headers, each once with
\* its literal value, and is closed after them by the one blank line.
CorsBlock(head) ==
    /\ head # <<>>
    /\ \A c \in CorsHeaders : Count(head, c) = 1 /\ NameCount(head, c[1]) = 1
    /\ \A n \in OtherCorsNames : NameCount(head, n) = 0
    /\ Count(head, EndOfHeaders) = 1
    /\ head[Len(head)] = EndOfHeaders

\* C1 as stated: every request answered while serving, whatever its method,
\* path or status, gets a response with exactly the three CORS headers, each
\* once, added before the header block is closed.
C1_EveryResponseHasCors ==
    \A h \in Handlers : Answered(h) => pc = "serve" /\ CorsBlock(h.resp.head)

\* C1 amended: every response that has a header block carries exactly the
\* three CORS headers, each once with its literal value, before the blank
\* line that closes the block, whatever the method, path or status; a
\* response written under HTTP/0.9 rules (a request line without version, or
\* with a version that does not parse or is 2.0 or more) has no status line
\* and no headers at all, so no CORS headers either.
C1_HeaderBlocksHaveCors ==
    \A h \in Handlers :
        Answered(h) =>
            /\ pc = "serve"
            /\ h.resp.buf = <<>>
            /\ h.rv # "HTTP/0.9" => CorsBlock(h.resp.head)
            /\ h.rv = "HTTP/0.9" => h.resp.head = <<>>
            /\ h.rv = "HTTP/0.9" <=> h.req.version # "HTTP/1.1"

C1_Witness ==
    \E h \in Handlers :
        /\ h.phase = "done"
        /\ h.req.method = "POST"
        /\ WireStatus(h.resp) = "501"
        /\ CorsBlock(h.resp.head)

\* The request's path names an existing regular file of the served directory.
MapsToFile(req, dir) == Kind(dir, req.node) = "file" /\ ~req.slash
\* The request's path names nothing in the served directory.
NoFileOrIndex(req, dir) == Kind(dir, req.node) = "none"

\* C4 as stated: every request whose path maps to an existing regular file is
\* answered 200 with the file's contents as body, and every request whose
\* path has no corresponding file or index is answered 404.
C4_FileOrNotFound ==
    \A h \in Handlers :
        h.phase = "done" =>
            /\ MapsToFile(h.req, h.dir) =>
                   WireStatus(h.resp) = "200" /\ h.resp.body = Contents(h.req.node)
            /\ NoFileOrIndex(h.req, h.dir) => WireStatus(h.resp) = "404"

\* C4 amended: for every GET request with an HTTP/1.x request line whose
\* path maps to an existing regular file that can be opened, and that is not
\* answered 304 for an If-Modified-Since, the response, once sent to its end,
\* has status 200 and the file's contents as body (a HEAD request gets the
\* same status and an empty body); for every GET or HEAD request with an
\* HTTP/1.x request line whose path has no corresponding file or index the
\* status is 404.  Other methods are answered 501, a file that cannot be
\* opened 404, and a request under HTTP/0.9 rules gets no status line.
C4_GetFileOrNotFound ==
    \A h \in Handlers :
        (h.phase = "done" /\ h.req.version = "HTTP/1.1") =>
            /\ (MapsToFile(h.req, h.dir) /\ Openable(h.dir, h.req.node) /\ ~h.req.ims) =>
                   /\ h.req.method = "GET" =>
                          WireStatus(h.resp) = "200" /\ h.resp.body = Contents(h.req.node)
                   /\ h.req.method = "HEAD" =>
                          WireStatus(h.resp) = "200" /\ h.resp.body = ""
            /\ (h.req.method \in {"GET", "HEAD"} /\ NoFileOrIndex(h.req, h.dir)) =>
                   WireStatus(h.resp) = "404"
            /\ h.req.method \notin {"GET", "HEAD"} => WireStatus(h.resp) = "501"

C4_Witness ==
    \E h \in Handlers :
        /\ h.phase = "done"
        /\ h.req = [method |-> "GET", version |-> "HTTP/1.1", node |-> "app.js",
                    slash |-> FALSE, ims |-> FALSE]
        /\ WireStatus(h.resp) = "200"
        /\ h.resp.body = "var quiz;"

\* C5: the working directory is the script's directory before the socket is
\* bound, hence before any connection is queued or accepted; it is set once
\* and never changed again, and every request is resolved against it.
C5_WorkingDirectoryFixed ==
    /\ (binds # <<>> \/ sock # "none") => cwd = ScriptDir
    /\ (backlog # <<>> \/ handlers # <<>>) => cwd = ScriptDir
    /\ chdirs <= 1
    /\ chdirs = 1 => cwd = ScriptDir
    /\ \A h \in Handlers : h.dir = ScriptDir

C5_Witness ==
    /\ chdirs = 1
    /\ \E h \in Handlers :
          h.phase = "done" /\ h.dir = ScriptDir /\ h.resp.body = Contents("app.js")

\* C6: at most one request is in progress at any time: a connection is
\* accepted only when no handler is in progress.
C6_OneRequestAtATime == Len(handlers) <= 1

C6_Witness ==
    /\ Len(handlers) = 1
    /\ handlers[1].phase = "body"
    /\ Len(backlog) = MaxBacklog

\* The process has ended the way a clean shutdown ends.
CleanExit == exitCode = 0 /\ NoticeCount = 1 /\ sock = "closed"

\* C2 as stated, as its final result: a process that was interrupted while
\* serving and has terminated has printed the stop notice exactly once, has
\* exit code 0 and has its listening socket closed.
C2_InterruptGivesCleanExit ==
    (sigint = "serving" /\ pc = "terminated") => CleanExit

\* C2 amended: whenever a keyboard interrupt is delivered while the process
\* is serving, the process eventually terminates, and, provided no further
\* interrupt is delivered before it has terminated, it has then printed the
\* stop notice exactly once, has exit code 0 and has closed its listening
\* socket.  The stop notice is never printed twice.
C2_InterruptStopsServer ==
    /\ [](NoticeCount <= 1)
    /\ (sigint = "serving") ~> (pc = "terminated" /\ (lateSigint \/ CleanExit))

C2_Witness ==
    /\ sigint = "serving"
    /\ ~lateSigint
    /\ pc = "terminated"
    /\ CleanExit
    /\ everServing

\* bind() has failed because the port is held.
BindFailed == portBusy /\ binds # <<>>

SomeRequestFailed == outcomes \cap {"error", "dropped"} # {}

\* C7 as stated: an error while handling a request is answered with an error
\* response, and the server stays in the serving state with its listening
\* socket open.
C7_ErrorsAreAnswered ==
    /\ "dropped" \notin outcomes
    /\ \A h \in Handlers : h.phase = "raised" => WireStatus(h.resp) \notin {"", "200"}
    /\ (SomeRequestFailed /\ sigint = "none") => pc = "serve" /\ sock = "listening"

\* C7 amended: an error while handling a single request is confined to that
\* request: a missing file, or one that cannot be opened, is answered with a
\* 404 error response, while an I/O error after the headers were sent (a
\* failed read of the file or write to the connection) ends that response
\* early and shuts its connection down without an error response; in both
\* cases the server stays in the serving state with its listening socket
\* open and goes on to accept and serve later requests.  Only an interrupt
\* takes the server out of the serving state.
C7_ErrorsAreConfined ==
    /\ \A h \in Handlers :
          /\ (h.phase = "raised" \/ (h.phase = "done" /\ Outcome(h) = "error")) =>
                 pc = "serve" /\ sock = "listening" /\ exc = "none"
          /\ h.phase = "raised" => WireStatus(h.resp) \in {"", "200"}
          /\ (h.phase = "done" /\ h.req.version = "HTTP/1.1"
                /\ h.req.method \in {"GET", "HEAD"}
                /\ Kind(h.dir, h.req.node) # "dir"
                /\ ~Openable(h.dir, h.req.node)) =>
                 WireStatus(h.resp) = "404" /\ Outcome(h) = "error"
    /\ (SomeRequestFailed /\ sigint = "none") =>
          /\ pc = "serve" /\ sock = "listening" /\ exitCode = -1
          /\ (handlers = <<>> /\ backlog # <<>>) => ENABLED Accept
    /\ (everServing /\ sigint = "none") => pc = "serve"

C7_Witness ==
    /\ {"error", "dropped"} \subseteq outcomes
    /\ \E h \in Handlers :
          h.phase = "done" /\ WireStatus(h.resp) = "200" /\ h.resp.body = "var quiz;"

\* The process is past the serve loop: in the except clause or further.
Stopping == pc \in {"except_print", "except_exit", "with_exit", "exit", "terminated"}

\* C8 as stated: the interrupt is acted on only between requests; it never
\* arrives at, and never aborts, a request in progress.
C8_InterruptOnlyBetweenRequests ==
    /\ ~midSigint
    /\ "aborted" \notin outcomes

\* C8 amended: the interrupt is acted on where it is delivered, also in the
\* middle of a request: the request in progress is then aborted (its
\* connection shut down, the rest of its response never sent) before the
\* stop notice is printed; once the interrupt has been delivered no request
\* is completed any more, and none is in progress when the notice is printed.
C8_InterruptAbortsRequest ==
    /\ [](midSigint => "aborted" \in outcomes /\ Stopping)
    /\ []("aborted" \in outcomes => midSigint)
    /\ []((Stopping \/ NoticeCount > 0) => handlers = <<>>)
    /\ [][sigint # "none" => outcomes' = outcomes]_vars

C8_Witness ==
    /\ midSigint
    /\ "aborted" \in outcomes
    /\ NoticeCount = 1
    /\ pc = "terminated"
    /\ exitCode = 0

\* C9: the interrupt is a clean shutdown only in the serving state: a run
\* whose first interrupt came during startup (directory change, bind, listen,
\* startup lines, browser launch) never prints the stop notice and never
\* exits with code 0, and the socket it had bound is released at its end; the
\* stop notice and exit code 0 occur only after an interrupt while serving.
C9_StartupInterruptIsNotClean ==
    /\ sigint = "starting" =>
          /\ NoticeCount = 0
          /\ exitCode # 0
          /\ exc = "KeyboardInterrupt"
          /\ ~everServing
          /\ pc = "terminated" => exitCode = 130 /\ sock \in {"none", "closed"}
    /\ (NoticeCount > 0 \/ exitCode = 0) => sigint = "serving"

C9_Witness ==
    /\ sigint = "starting"
    /\ pc = "terminated"
    /\ sock = "closed"
    /\ Len(stdout) = 3
    /\ exitCode = 130

\* What C10 says of the launch: the browser is launched at most once, and
\* exactly once before the serve loop is entered; when it is launched the
\* five startup lines are out and the socket is bound and listening, so its
\* connection is queued, and refused only once an interrupt has made the
\* server close the socket.
C10_LaunchOrder ==
    /\ launches <= 1
    /\ launches = 1 => Len(stdout) >= 5 /\ SubSeq(stdout, 1, 5) = DiagLines
    /\ pc = "browser" => launches = 0 /\ sock = "listening" /\ stdout = DiagLines
    /\ (pc \in {"try", "serve"} \/ everServing) => launches = 1
    /\ launches = 0 => browser = "none" /\ ~everServing
    /\ (launches = 1 /\ sigint = "none") => sock = "listening"
    /\ browser = "refused" => sigint # "none"

====
